---- MODULE Spec2Model ----
(***************************************************************************)
(* Stock-Audit-Software: the inventory reconciliation engine.              *)
(*                                                                         *)
(* InventoryContext (InventoryProvider), SupabaseDataService, the          *)
(* FileUploader's handleImport, the BarcodeScanner's handleItemScan and    *)
(* the SearchInventory manual entry, as a state machine over the persisted *)
(* inventory_items table and the in-memory mirrors the React state holds.  *)
(***************************************************************************)
EXTENDS Integers, FiniteSets, Sequences, TLC

(***************************************************************************)
(* Bounds of the model.                                                    *)
(***************************************************************************)
\* writes and rejected attempts (imports, scans, manual entries, resets)
\* in one behaviour; the clock that new Date() reads advances by one with
\* each
MaxClock == 3
\* largest quantity a closing-stock file or a manual entry carries
MaxQty == 1
\* largest number of rows in one imported file
MaxBatch == 2
\* the operations of a run of the questionnaire or of the location registry
MaxSteps == 4
\* the scans a scanner session with asynchronous scans issues
MaxCalls == 2

(***************************************************************************)
(* JavaScript undefined and SQL NULL / JavaScript null.  Numeric fields    *)
(* use the integers, text fields the strings.                              *)
(***************************************************************************)
Undef == -2
Null == -1
UndefS == "undefined"
NullS == "null"

(***************************************************************************)
(* InventoryItem (InventoryContext)                                        *)
(***************************************************************************)
Item(id, sku, name, category, location, systemQuantity, physicalQuantity, status, lastAudited, notes) ==
    [id |-> id, sku |-> sku, name |-> name, category |-> category,
     location |-> location, systemQuantity |-> systemQuantity,
     physicalQuantity |-> physicalQuantity, status |-> status,
     lastAudited |-> lastAudited, notes |-> notes]

\* the (sku, location) pairs the imported files speak about
Keys == {<<"A1", "L1">>, <<"A1", "L2">>}

\* the locations the InventoryProvider has loaded
AllLocations == {[id |-> "l1", name |-> "L1"], [id |-> "l2", name |-> "L2"]}
LocIds == {l.id : l \in AllLocations}

\* the id the table generates for a row (one per key)
IdOf(sku, loc) ==
    IF sku = "A1" THEN (IF loc = "L1" THEN "id-A1-L1"
                        ELSE IF loc = "L2" THEN "id-A1-L2" ELSE "id-A1-L3")
    ELSE "id-B2-L1"

\* codes a capture method can deliver: a SKU, a row id, an unknown code
Barcodes == {"A1", "id-A1-L2", "ZZ"}

Users ==
    { [role |-> "admin", assignedLocations |-> {}],
      [role |-> "auditor", assignedLocations |-> {"l1"}],
      [role |-> "auditor", assignedLocations |-> {"l1", "l2"}] }

\* UserProvider: no profile
NoUser == [role |-> "", assignedLocations |-> {}]

\* UserProvider once fetchSession has completed for a signed-in user
SignedIn(user) ==
    [isAuthenticated |-> TRUE, users |-> IF user.role = "admin" THEN Users ELSE {},
     loading |-> FALSE, session |-> user]

(***************************************************************************)
(* The inventory_items row.  Records list their fields in one order        *)
(* throughout the module.                                                  *)
(***************************************************************************)
\* x || 0
OrZero(x) == IF x \in {Undef, Null, 0} THEN 0 ELSE x

\* x || y on text
OrElseS(x, y) == IF x \in {UndefS, NullS, ""} THEN y ELSE x

\* what JSON.stringify plus the columns parameter make of an undefined value
ToSqlN(x) == IF x = Undef THEN Null ELSE x
ToSqlS(x) == IF x = UndefS THEN NullS ELSE x

\* SupabaseDataService.dbToInventoryItem
DbToInventoryItem(dbItem) ==
    [id |-> IF dbItem.id # NullS THEN dbItem.id ELSE "",
     sku |-> IF dbItem.sku # NullS THEN dbItem.sku ELSE "",
     name |-> dbItem.name,
     category |-> UndefS,
     location |-> dbItem.location,
     systemQuantity |-> OrZero(dbItem.system_quantity),
     physicalQuantity |-> dbItem.physical_quantity,
     status |-> dbItem.status,
     lastAudited |-> dbItem.last_audited,
     notes |-> dbItem.notes]

\* inventoryItemToDb passing the status through without its || 'pending'
InventoryItemToDb_NoDefault(item) ==
    [sku |-> item.sku,
     name |-> item.name,
     location |-> item.location,
     status |-> item.status,
     notes |-> item.notes,
     system_quantity |-> item.systemQuantity,
     physical_quantity |-> item.physicalQuantity,
     last_audited |-> item.lastAudited]

\* SupabaseDataService.inventoryItemToDb
InventoryItemToDb(item) ==
    [sku |-> item.sku,
     name |-> item.name,
     location |-> item.location,
     status |-> OrElseS(item.status, "pending"),
     notes |-> item.notes,
     system_quantity |-> item.systemQuantity,
     physical_quantity |-> item.physicalQuantity,
     last_audited |-> item.lastAudited]

(***************************************************************************)
(* The persistence collaborator: upsert on (sku, location) and the three   *)
(* selects.                                                                *)
(***************************************************************************)
KeyOf(r) == <<r.sku, r.location>>

\* the upsert is rejected: name is NOT NULL, and one statement cannot
\* touch a row twice
UpsertRejects(dbItems) ==
    \/ \E p \in dbItems : p.name \in {UndefS, NullS}
    \/ \E p, q \in dbItems : p # q /\ KeyOf(p) = KeyOf(q)

\* the row a payload leaves in the table: every submitted column is written
\* (undefined as NULL), the id stays or is generated
UpsertRow(table, p) ==
    [id |-> IF \E r \in table : KeyOf(r) = KeyOf(p)
              THEN (CHOOSE r \in table : KeyOf(r) = KeyOf(p)).id
              ELSE IdOf(p.sku, p.location),
     sku |-> p.sku,
     name |-> ToSqlS(p.name),
     location |-> p.location,
     status |-> ToSqlS(p.status),
     notes |-> ToSqlS(p.notes),
     system_quantity |-> ToSqlN(p.system_quantity),
     physical_quantity |-> ToSqlN(p.physical_quantity),
     last_audited |-> ToSqlN(p.last_audited)]

\* .upsert(dbItems, { onConflict: 'sku,location' })
Upsert(table, dbItems) ==
    {r \in table : ~ \E p \in dbItems : KeyOf(p) = KeyOf(r)}
        \cup {UpsertRow(table, p) : p \in dbItems}

\* getItemMaster: .not('sku', 'is', null)
GetItemMaster(table) == {DbToInventoryItem(r) : r \in {x \in table : x.sku # NullS}}

\* getClosingStock: .not('physical_quantity', 'is', null)
GetClosingStock(table) ==
    {DbToInventoryItem(r) : r \in {x \in table : x.physical_quantity # Null}}

\* getAuditedItems: .not('last_audited', 'is', null)
GetAuditedItems(table) ==
    {DbToInventoryItem(r) : r \in {x \in table : x.last_audited # Null}}

(***************************************************************************)
(* SupabaseDataService: the locations, questions and questionnaire_answers *)
(* tables.  An answer is a string or an array of strings; it is written    *)
(* here by its kind and its text, the text of an array being its JSON.     *)
(***************************************************************************)
\* getLocations
GetLocations(table) == {[id |-> location.id, name |-> location.name] : location \in table}

\* getQuestions
GetQuestions(table) == {[id |-> q.id, text |-> q.text] : q \in table}

\* setQuestions: dbQuestions
QuestionsToDb(qs) == {[id |-> q.id, text |-> q.text] : q \in qs}

Str(text) == [text |-> text, kind |-> "string"]
Arr(text) == [text |-> text, kind |-> "array"]

AnswerValues == {Str("yes"), Arr("[\"a\"]")}

QuestionnaireAnswer(questionId, locationId, answer, answeredOn) ==
    [questionId |-> questionId, locationId |-> locationId, answer |-> answer,
     answeredOn |-> answeredOn]

\* setQuestionnaireAnswers: typeof a.answer === 'string' ? a.answer : JSON.stringify(a.answer)
AnswerToDb(a) ==
    [answer |-> a.answer.text, question_id |-> a.questionId, location_id |-> a.locationId,
     answered_on |-> a.answeredOn]

\* the stored texts JSON.parse accepts; on any other it throws
JsonParses(text) == text \in {"[\"a\"]"}

\* a.answer ? (typeof a.answer === 'string' ? JSON.parse(a.answer) : a.answer) : ""
AnswerFromDb(text) == IF text = "" THEN Str("") ELSE Arr(text)

\* getQuestionnaireAnswers: an error of the mapping is caught and [] returned
GetQuestionnaireAnswers(table) ==
    IF \E a \in table : a.answer # "" /\ ~JsonParses(a.answer) THEN {}
    ELSE {QuestionnaireAnswer(a.question_id, a.location_id, AnswerFromDb(a.answer),
                              a.answered_on) : a \in table}

\* upsert(dbAnswers, { onConflict: 'question_id,location_id' })
UpsertAnswers(table, dbAnswers) ==
    {r \in table : ~\E a \in dbAnswers :
         a.question_id = r.question_id /\ a.location_id = r.location_id} \cup dbAnswers

VARIABLES
    db,                \* the inventory_items table
    itemMaster,        \* InventoryProvider state
    closingStock,
    auditedItems,
    locations,
    currentUser,       \* UserContext
    selectedLocation,  \* the state of that name of the page that is shown
                       \* (the scanner, the dashboard, the reports): a location
                       \* id or ""
    camera,            \* the render the running camera's callback closes over
    importer,          \* a running handleImport: what it has yet to do
    clock,             \* the time of the last operation
    last,              \* what the last operation did and reported
    locationsDb,       \* the locations table
    questions,         \* InventoryProvider state
    questionnaireAnswers,
    questionsDb,       \* the questions table
    answersDb,         \* the questionnaire_answers table
    calls,             \* the asynchronous calls that have not returned yet
    isHardwareScannerMode,  \* BarcodeScanner state
    auth               \* UserProvider state beside currentUser, and the
                       \* session the auth service holds

\* the questionnaire: its provider state and its tables
questionnaire == <<questions, questionnaireAnswers, questionsDb, answersDb>>

\* what the asynchronous parts of the program add to its state
background == <<calls, isHardwareScannerMode, auth>>

vars == <<db, itemMaster, closingStock, auditedItems, locations, currentUser,
          selectedLocation, camera, importer, clock, last, locationsDb, questionnaire,
          background>>

(***************************************************************************)
(* The files an import reads.  A catalog (item master) file lists rows     *)
(* with their descriptive fields; FileUploader.handleImport forces their   *)
(* systemQuantity to 0.  A closing-stock file carries quantities, and a    *)
(* Name column or none.                                                    *)
(***************************************************************************)
NameOf(sku) == "Widget"
ClosingName == "Bulk item"

KeySets == {K \in SUBSET Keys : K # {} /\ Cardinality(K) <= MaxBatch}

CatalogItems(K) ==
    {Item(UndefS, k[1], NameOf(k[1]), "Tools", k[2], 0, Undef, UndefS, Undef, UndefS) :
        k \in K}

ClosingItems(K, qty, hasName) ==
    {Item(UndefS, k[1], IF hasName THEN ClosingName ELSE UndefS,
          IF hasName THEN "Tools" ELSE UndefS, k[2], qty, Undef, UndefS, Undef, UndefS) :
        k \in K}

(***************************************************************************)
(* InventoryProvider                                                       *)
(***************************************************************************)
\* a merge that adds the incoming quantity to the one on record
MergeClosingStock_Accumulate(items, master) ==
    {IF \E i \in master : i.sku = incomingItem.sku /\ i.location = incomingItem.location
       THEN [(CHOOSE i \in master :
                 i.sku = incomingItem.sku /\ i.location = incomingItem.location)
               EXCEPT !.systemQuantity = @ + incomingItem.systemQuantity]
       ELSE incomingItem :
     incomingItem \in items}

\* setClosingStock: the merge of the incoming rows with the item master
MergeClosingStock(items, master) ==
    {IF \E i \in master : i.sku = incomingItem.sku /\ i.location = incomingItem.location
       THEN [(CHOOSE i \in master :
                 i.sku = incomingItem.sku /\ i.location = incomingItem.location)
               EXCEPT !.systemQuantity = incomingItem.systemQuantity]
       ELSE incomingItem :
     incomingItem \in items}

\* a status that never reports a match
UpdateStatus_Discrepancy(item) ==
    IF item.physicalQuantity # Undef THEN "discrepancy" ELSE "pending"

\* updateAuditedItem: the status it computes
UpdateStatus(item) ==
    IF item.physicalQuantity # Undef /\ item.systemQuantity = item.physicalQuantity
      THEN "matched"
      ELSE IF item.physicalQuantity # Undef THEN "discrepancy" ELSE "pending"

\* updateAuditedItem: itemToUpdate
ItemToUpdate(item, now) ==
    [item EXCEPT !.physicalQuantity = OrZero(item.physicalQuantity),
                 !.status = UpdateStatus(item),
                 !.lastAudited = now]

\* addItemToAudit: the item it hands to updateAuditedItem
AuditEntry(item, quantity, now) ==
    [item EXCEPT !.physicalQuantity = quantity,
                 !.status = IF quantity = item.systemQuantity
                              THEN "matched" ELSE "discrepancy",
                 !.lastAudited = now]

(***************************************************************************)
(* useUserAccess().accessibleLocations (the hook is not among the sources; *)
(* the Access Filter of the design: admin sees all, others their assigned  *)
(* locations that exist)                                                   *)
(***************************************************************************)
AccessibleLocations(user, locs) ==
    IF user.role = "admin" THEN locs
    ELSE {l \in locs : l.id \in user.assignedLocations}

(***************************************************************************)
(* BarcodeScanner.handleItemScan                                           *)
(***************************************************************************)
\* locations.find(loc => loc.id === locationId)?.name || ''
LocationNameOf(locs, locationId) ==
    IF \E l \in locs : l.id = locationId
      THEN (CHOOSE l \in locs : l.id = locationId).name
      ELSE ""

\* a lookup that finds a record for any code
MasterMatches_Any(master, barcode) == master

\* the records itemMaster.find(item => item.id === barcode || item.sku === barcode)
\* can return: the first match in an order the select does not fix
MasterMatches(master, barcode) ==
    {item \in master : item.id = barcode \/ item.sku = barcode}

\* the policy without its access check for other roles
LocationPolicy_NoDeny(user, accessible, masterItem, locationName) ==
    IF masterItem.location = locationName THEN "same"
    ELSE IF user.role = "admin" THEN "override" ELSE "corrected"

\* the location-mismatch policy
LocationPolicy(user, accessible, masterItem, locationName) ==
    IF masterItem.location = locationName THEN "same"
    ELSE IF user.role = "admin" THEN "override"
    ELSE IF \E loc \in accessible : loc.name = masterItem.location
           THEN "corrected" ELSE "denied"

\* auditedItems.find(item => item.sku === masterItem.sku && item.location === locationName)
ExistingAudited(audited, sku, locationName) ==
    {item \in audited : item.sku = sku /\ item.location = locationName}

\* existingAuditedItem?.physicalQuantity || 0
InitialPhysicalQuantity(existing) ==
    IF existing = {} THEN 0 ELSE OrZero((CHOOSE e \in existing : TRUE).physicalQuantity)

\* a scan that writes back the quantity it read
NewPhysicalQuantity_Same(existing) == InitialPhysicalQuantity(existing)

NewPhysicalQuantity(existing) == InitialPhysicalQuantity(existing) + 1

ScanStatus(newPhysicalQuantity, masterItem) ==
    IF newPhysicalQuantity = masterItem.systemQuantity THEN "matched" ELSE "discrepancy"

\* the itemToUpdate handleItemScan builds
ScanItemToUpdate(masterItem, locationName, existing, now) ==
    Item(masterItem.id, masterItem.sku, masterItem.name, masterItem.category,
         locationName, masterItem.systemQuantity, NewPhysicalQuantity(existing),
         ScanStatus(NewPhysicalQuantity(existing), masterItem), now,
         OrElseS(IF existing = {} THEN UndefS ELSE (CHOOSE e \in existing : TRUE).notes,
                 masterItem.notes))

(***************************************************************************)
(* What the last operation did and reported: its result ("success",        *)
(* "rejected" for a handler that returns false, "threw" for a context      *)
(* function whose promise rejects), the toast, whether a location warning  *)
(* was shown, the catalog record it was about, whether the upsert was      *)
(* issued and how it ended, the rows handed to it, the items an import was *)
(* given, and whether the import before it was given the same and          *)
(* succeeded.                                                              *)
(***************************************************************************)
NoKey == <<"", "">>

Report(op, method, result, toast, warning, target, write, submitted, batch, repeat) ==
    [op |-> op, method |-> method, result |-> result, toast |-> toast,
     warning |-> warning, target |-> target, write |-> write,
     submitted |-> submitted, batch |-> batch, repeat |-> repeat]

\* the render a scan handler closes over
View(master, audited, locs, user, selected) ==
    [itemMaster |-> master, auditedItems |-> audited, locations |-> locs,
     currentUser |-> user, selectedLocation |-> selected]

CurrentView == View(itemMaster, auditedItems, locations, currentUser, selectedLocation)

CameraOff == [on |-> FALSE, view |-> View({}, {}, {}, [role |-> "", assignedLocations |-> {}], "")]

\* no handleImport is running
NoImport == [view |-> {}, closingStockFile |-> {}, isImporting |-> FALSE]

\* no handler is in the middle of its work
Quiet == importer = NoImport /\ UNCHANGED importer

\* the InventoryProvider has mounted and loadData has read an empty table
Init ==
    /\ db = {}
    /\ itemMaster = GetItemMaster(db)
    /\ closingStock = GetClosingStock(db)
    /\ auditedItems = GetAuditedItems(db)
    /\ locationsDb = AllLocations
    /\ locations = GetLocations(locationsDb)
    /\ questionsDb = {}
    /\ questions = GetQuestions(questionsDb)
    /\ answersDb = {}
    /\ questionnaireAnswers = GetQuestionnaireAnswers(answersDb)
    /\ currentUser \in Users
    /\ selectedLocation = ""
    /\ camera = CameraOff
    /\ importer = NoImport
    /\ calls = {}
    /\ isHardwareScannerMode = FALSE
    /\ auth = SignedIn(currentUser)
    /\ clock = 0
    /\ last = Report("none", "", "", "", FALSE, NoKey, "none", {}, {}, FALSE)

Tick == clock < MaxClock /\ clock' = clock + 1

\* how the upsert of dbItems ends: ok is the collaborator's answer
WriteOutcome(dbItems, ok) ==
    IF dbItems = {} THEN "none"
    ELSE IF ~ok \/ UpsertRejects(dbItems) THEN "failed" ELSE "done"

\* the refresh after an import
RefreshMaster ==
    /\ itemMaster' = GetItemMaster(db')
    /\ closingStock' = GetClosingStock(db')

\* InventoryProvider.setItemMaster
SetItemMaster(items) ==
    /\ Tick
    /\ LET dbItems == {InventoryItemToDb(i) : i \in items}
           write == WriteOutcome(dbItems, TRUE)
       IN  IF write = "failed"
             THEN /\ UNCHANGED <<db, itemMaster, closingStock>>
                  /\ last' = Report("catalog", "", "threw", "", FALSE, NoKey, write,
                                    dbItems, items, FALSE)
             ELSE /\ db' = Upsert(db, dbItems)
                  /\ RefreshMaster
                  /\ last' = Report("catalog", "", "success", "", FALSE, NoKey, write,
                                    dbItems, items, FALSE)
    /\ UNCHANGED <<auditedItems, locations, currentUser, selectedLocation, camera>>
    /\ UNCHANGED <<locationsDb, questionnaire, background>>

\* the closing-stock import before this one was given the same items and
\* succeeded
Repeated(items) ==
    last.op = "closing" /\ last.result = "success" /\ last.batch = items

\* InventoryProvider.setClosingStock, as made by the render whose item
\* master is master
SetClosingStock(items, master) ==
    /\ Tick
    /\ LET mergedClosingStock == MergeClosingStock(items, master)
           dbItems == {InventoryItemToDb(i) : i \in mergedClosingStock}
           write == WriteOutcome(dbItems, TRUE)
       IN  IF write = "failed"
             THEN /\ UNCHANGED <<db, itemMaster, closingStock>>
                  /\ last' = Report("closing", "", "threw", "", FALSE, NoKey, write,
                                    dbItems, items, Repeated(items))
             ELSE /\ db' = Upsert(db, dbItems)
                  /\ RefreshMaster
                  /\ last' = Report("closing", "", "success", "", FALSE, NoKey, write,
                                    dbItems, items, Repeated(items))
    /\ UNCHANGED <<auditedItems, locations, currentUser, selectedLocation, camera>>
    /\ UNCHANGED <<locationsDb, questionnaire, background>>

(***************************************************************************)
(* FileUploader.handleImport.  With one file chosen it makes one call of   *)
(* the provider.  With both it awaits setItemMaster and then calls the     *)
(* setClosingStock of the render in which the button was pressed; the      *)
(* uploader shows its importing state until the handler ends, and no other *)
(* handler runs in between.                                                *)
(***************************************************************************)
\* if (items.length === 0) { toast.error(...); setIsImporting(false); return; }
ImportRejected(op) ==
    /\ Tick
    /\ last' = Report(op, "", "rejected", "Invalid file format or empty file", FALSE,
                      NoKey, "none", {}, {}, FALSE)
    /\ UNCHANGED <<db, itemMaster, closingStock, auditedItems, locations, currentUser,
                   selectedLocation, camera, locationsDb, questionnaire, background>>

ImportItemMaster(items) ==
    /\ Quiet
    /\ IF items = {} THEN ImportRejected("catalog") ELSE SetItemMaster(items)

ImportClosingStock(items) ==
    /\ Quiet
    /\ IF items = {} THEN ImportRejected("closing") ELSE SetClosingStock(items, itemMaster)

\* both files, up to the end of await setItemMaster(processedItems); the
\* item master card is the administrator's
ImportBoth(itemMasterFile, closingStockFile) ==
    /\ importer = NoImport
    /\ currentUser.role = "admin"
    /\ clock + 1 < MaxClock        \* both of its writes fit the bound
    /\ IF itemMasterFile = {} THEN ImportRejected("catalog") ELSE SetItemMaster(itemMasterFile)
    /\ importer' = IF last'.result = "success"
                     THEN [view |-> itemMaster, closingStockFile |-> closingStockFile,
                           isImporting |-> TRUE]
                     ELSE NoImport

\* both files, from await setClosingStock(processedItems) on
ContinueImport ==
    /\ importer.isImporting
    /\ IF importer.closingStockFile = {} THEN ImportRejected("closing")
       ELSE SetClosingStock(importer.closingStockFile, importer.view)
    /\ importer' = NoImport

\* InventoryProvider.updateAuditedItem: the refresh after the upsert
RefreshAll ==
    /\ itemMaster' = GetItemMaster(db')
    /\ closingStock' = GetClosingStock(db')
    /\ auditedItems' = GetAuditedItems(db')

\* keying the update by the selected location whatever the policy says
ResolvedLocation_Selected(policy, name, masterItem) == name

\* handleItemScan: the location the update is keyed by
ResolvedLocation(policy, name, masterItem) ==
    IF policy = "same" THEN name ELSE masterItem.location

\* a handler that swallows the error of the upsert
ScanResult_Swallow(write) == "success"

\* handleItemScan: try { ... return true } catch { ... return false }
ScanResult(write) == IF write = "done" THEN "success" ELSE "rejected"

\* BarcodeScanner.handleItemScan(barcode, v.selectedLocation) run in the render v
HandleItemScan(method, v, barcode, ok) ==
    /\ Tick
    /\ LET locationId == v.selectedLocation
           name == LocationNameOf(v.locations, locationId)
           Rejected(toast, target) ==
               /\ UNCHANGED <<db, itemMaster, closingStock, auditedItems>>
               /\ last' = Report("scan", method, "rejected", toast, FALSE, target,
                                 "none", {}, {}, FALSE)
       IN  IF locationId = "" THEN Rejected("Location Required", NoKey)
           ELSE IF name = "" THEN Rejected("Invalid Location", NoKey)
           ELSE IF MasterMatches(v.itemMaster, barcode) = {}
             THEN Rejected("Item not found", NoKey)
           ELSE \E masterItem \in MasterMatches(v.itemMaster, barcode) :
             LET policy == LocationPolicy(v.currentUser,
                               AccessibleLocations(v.currentUser, v.locations),
                               masterItem, name)
                 locationName == ResolvedLocation(policy, name, masterItem)
                 existing == ExistingAudited(v.auditedItems, masterItem.sku, locationName)
                 itemToUpdate == ScanItemToUpdate(masterItem, locationName, existing,
                                                  clock')
                 dbItems == {InventoryItemToDb(ItemToUpdate(itemToUpdate, clock'))}
                 write == WriteOutcome(dbItems, ok)
             IN  IF policy = "denied"
                   THEN Rejected("Access denied", KeyOf(masterItem))
                 ELSE IF ScanResult(write) = "rejected"
                   THEN /\ UNCHANGED <<db, itemMaster, closingStock, auditedItems>>
                        /\ last' = Report("scan", method, "rejected", "Scanning Error",
                                          policy # "same", KeyOf(masterItem), write,
                                          dbItems, {}, FALSE)
                 ELSE /\ db' = IF write = "done" THEN Upsert(db, dbItems) ELSE db
                      /\ RefreshAll
                      /\ last' = Report("scan", method, "success",
                                   IF itemToUpdate.status = "matched"
                                     THEN "Item scanned - Matched!"
                                     ELSE "Item scanned - Discrepancy detected!",
                                   policy # "same", KeyOf(masterItem), write, dbItems, {}, FALSE)
    /\ UNCHANGED <<locations, currentUser, selectedLocation, camera>>
    /\ UNCHANGED <<locationsDb, questionnaire, background>>

\* handleItemScan(barcode, locationId) called in the current render
ItemScan(barcode, locationId, ok) ==
    /\ Quiet
    /\ HandleItemScan("call", [CurrentView EXCEPT !.selectedLocation = locationId],
                      barcode, ok)

\* handleManualSubmit: the form runs the handler of the current render
ManualScan(barcode, ok) ==
    /\ Quiet
    /\ selectedLocation # ""
    /\ HandleItemScan("manual", CurrentView, barcode, ok)

\* onScanSuccess: the camera runs the handler of the render that started it
CameraScan(barcode, ok) ==
    /\ Quiet
    /\ camera.on
    /\ HandleItemScan("camera", camera.view, barcode, ok)

\* the location Select of the scanner
SelectLocation(id) ==
    /\ Quiet
    /\ id \in {l.id : l \in AccessibleLocations(currentUser, locations)}
    /\ id # selectedLocation
    /\ selectedLocation' = id
    /\ UNCHANGED <<db, itemMaster, closingStock, auditedItems, locations, currentUser,
                   camera, clock, last, locationsDb, questionnaire, background>>

\* handleStartScanning
StartScanning ==
    /\ Quiet
    /\ ~camera.on
    /\ selectedLocation # ""
    /\ camera' = [on |-> TRUE, view |-> CurrentView]
    /\ UNCHANGED <<db, itemMaster, closingStock, auditedItems, locations, currentUser,
                   selectedLocation, clock, last, locationsDb, questionnaire, background>>

\* handleStopScanning
StopScanning ==
    /\ Quiet
    /\ camera.on
    /\ camera' = CameraOff
    /\ UNCHANGED <<db, itemMaster, closingStock, auditedItems, locations, currentUser,
                   selectedLocation, clock, last, locationsDb, questionnaire, background>>

\* SearchInventory.handleSearch: what searchItem finds, as the caller may see it
SearchResults ==
    IF currentUser.role # "admin"
      THEN {item \in itemMaster :
              item.location \in {l.name : l \in AccessibleLocations(currentUser, locations)}}
      ELSE itemMaster

\* SearchInventory.handleAddToAudit -> addItemToAudit -> updateAuditedItem
AddItemToAudit(item, quantity, ok) ==
    /\ Quiet
    /\ Tick
    /\ quantity >= 0
    /\ LET dbItems == {InventoryItemToDb(ItemToUpdate(AuditEntry(item, quantity, clock'),
                                                       clock'))}
           write == WriteOutcome(dbItems, ok)
       IN  IF write = "failed"
             THEN /\ UNCHANGED <<db, itemMaster, closingStock, auditedItems>>
                  /\ last' = Report("manual", "", "threw", "Item added to audit",
                                    FALSE, KeyOf(item), write, dbItems, {}, FALSE)
             ELSE /\ db' = Upsert(db, dbItems)
                  /\ RefreshAll
                  /\ last' = Report("manual", "", "success", "Item added to audit",
                                    FALSE, KeyOf(item), write, dbItems, {}, FALSE)
    /\ UNCHANGED <<locations, currentUser, selectedLocation, camera>>
    /\ UNCHANGED <<locationsDb, questionnaire, background>>

\* InventoryProvider.clearAllData: clearInventoryData empties the inventory and
\* the answers tables
ClearAllData ==
    /\ Quiet
    /\ Tick
    /\ db' = {}
    /\ answersDb' = {}
    /\ itemMaster' = {}
    /\ closingStock' = {}
    /\ auditedItems' = {}
    /\ questionnaireAnswers' = {}
    /\ last' = Report("clear", "", "success", "", FALSE, NoKey, "none", {}, {}, FALSE)
    /\ UNCHANGED <<locations, currentUser, selectedLocation, camera>>
    /\ UNCHANGED <<locationsDb, questions, questionsDb, background>>

(***************************************************************************)
(* InventoryProvider: the summaries                                        *)
(***************************************************************************)
\* auditedItems.find(a => a.sku === masterItem.sku && a.location === masterItem.location)
\* has the given status
AuditedAs(masterItem, audited, status) ==
    LET found == {a \in audited : a.sku = masterItem.sku /\ a.location = masterItem.location}
    IN  found # {} /\ (CHOOSE a \in found : TRUE).status = status

Summary(totalItems, auditedItemsCount, matched, discrepancies) ==
    [auditedItems |-> auditedItemsCount, totalItems |-> totalItems,
     matched |-> matched, discrepancies |-> discrepancies,
     pendingItems |-> totalItems - auditedItemsCount]

\* getInventorySummary
GetInventorySummary(master, audited) ==
    Summary(Cardinality(master),
            Cardinality({<<i.sku, i.location>> : i \in audited}),
            Cardinality({masterItem \in master : AuditedAs(masterItem, audited, "matched")}),
            Cardinality({masterItem \in master : AuditedAs(masterItem, audited, "discrepancy")}))

\* a location summary that counts the records of every location
GetLocationSummary_All(master, audited, locationName) ==
    GetInventorySummary(master, audited)

\* getLocationSummary
GetLocationSummary(master, audited, locationName) ==
    LET locationItems == {item \in master : item.location = locationName}
        locationAuditedItems == {item \in audited : item.location = locationName}
    IN  Summary(Cardinality(locationItems),
                Cardinality(locationAuditedItems),
                Cardinality({masterItem \in locationItems :
                                AuditedAs(masterItem, locationAuditedItems, "matched")}),
                Cardinality({masterItem \in locationItems :
                                AuditedAs(masterItem, locationAuditedItems, "discrepancy")}))

(***************************************************************************)
(* The completion percentage the pages compute from a summary              *)
(***************************************************************************)
\* the JavaScript number Infinity
Infinity == -3

\* Math.round((auditedItems / totalItems) * 100) for totalItems > 0: the
\* nearest integer, a half going up
RoundedPercent(audited, total) == (200 * audited + total) \div (2 * total)

\* InventoryOverview.completionPercentage, and the same expression of
\* Reports.downloadSummaryReport
CompletionPercentage(summary) ==
    IF summary.totalItems > 0
      THEN RoundedPercent(summary.auditedItems, summary.totalItems)
      ELSE 0

\* LocationAuditSummary: the progress it shows when auditedItems > 0; a
\* positive number divided by 0 is Infinity
Progress(summary) ==
    IF summary.totalItems = 0 THEN Infinity
    ELSE RoundedPercent(summary.auditedItems, summary.totalItems)

(***************************************************************************)
(* What the pages show of the item master                                  *)
(***************************************************************************)
\* InventoryTable.filteredData, by the item master record of each row
FilteredData(master, locs, user, selected) ==
    IF user.role = "admin" /\ selected = "" THEN master
    ELSE IF selected # ""
      THEN IF \E loc \in locs : loc.id = selected
             THEN {item \in master : item.location = LocationNameOf(locs, selected)}
             ELSE IF user.role = "admin" THEN master ELSE {}
    ELSE {item \in master :
            item.location \in {loc.name : loc \in AccessibleLocations(user, locs)}}

\* Reports: filteredItemMaster
FilteredItemMaster(master, locs, user, selected) ==
    IF user.role = "admin" /\ selected = "" THEN master
    ELSE IF selected # "" /\ \E loc \in locs : loc.id = selected
      THEN {item \in master : item.location = LocationNameOf(locs, selected)}
    ELSE IF user.role = "admin" THEN master ELSE {}

\* UserProvider: an auth state change (a sign-in, a token refresh) reads the
\* profile again; one provider shows the loader meanwhile, which mounts the
\* page anew (remount), the other leaves the page as it is
ProfileRefreshed(profile, remount) ==
    /\ Quiet
    /\ profile # currentUser
    /\ currentUser' = profile
    /\ selectedLocation' = IF remount THEN "" ELSE selectedLocation
    /\ camera' = IF remount THEN CameraOff ELSE camera
    /\ auth' = SignedIn(profile)
    /\ UNCHANGED <<db, itemMaster, closingStock, auditedItems, locations, clock, last,
                   locationsDb, questionnaire, calls, isHardwareScannerMode>>

(***************************************************************************)
(* InventoryProvider: the questionnaire                                    *)
(***************************************************************************)
Step == clock < MaxSteps /\ clock' = clock + 1

\* `q${Date.now()}`
QuestionId(now) == <<"q1", "q2", "q3", "q4", "q5", "q6">>[now]

\* setQuestions: the table after its delete, whose error it does not look at
\* (del: the delete took effect), and its insert
AfterDelete(table, del) == IF del THEN {} ELSE table

SetQuestionsThrows(table, qs, del, ok) ==
    /\ qs # {}
    /\ \/ ~ok
       \/ \E q \in qs, r \in AfterDelete(table, del) : r.id = q.id

SetQuestionsTable(table, qs, del, ok) ==
    IF qs = {} \/ SetQuestionsThrows(table, qs, del, ok)
      THEN AfterDelete(table, del)
      ELSE AfterDelete(table, del) \cup QuestionsToDb(qs)

\* setQuestionnaireAnswers: it writes only when there is an answer to write
SetAnswersThrows(answers, ok) == answers # {} /\ ~ok

SetAnswersTable(table, answers) ==
    IF answers = {} THEN table ELSE UpsertAnswers(table, {AnswerToDb(a) : a \in answers})

\* what a questionnaire operation did: the rows it handed to the upsert, the
\* answer it was given, and whether that answer replaced one
QuestionReport(op, result, questionId, locationId, answers, given, replaced) ==
    Report(op, "", result, "", FALSE, <<questionId, locationId>>,
           IF result = "threw" THEN "failed" ELSE "done",
           {AnswerToDb(a) : a \in answers}, given, replaced)

\* addQuestion
AddQuestion(del, ok) ==
    /\ Quiet
    /\ Step
    /\ LET newQuestion == [id |-> QuestionId(clock'), text |-> "Question"]
           updatedQuestions == questions \cup {newQuestion}
       IN  /\ questionsDb' = SetQuestionsTable(questionsDb, updatedQuestions, del, ok)
           /\ IF SetQuestionsThrows(questionsDb, updatedQuestions, del, ok)
                THEN /\ UNCHANGED questions
                     /\ last' = QuestionReport("addQuestion", "threw", newQuestion.id, "", {}, {}, FALSE)
                ELSE /\ questions' = updatedQuestions
                     /\ last' = QuestionReport("addQuestion", "success", newQuestion.id, "", {}, {}, FALSE)
    /\ UNCHANGED <<db, itemMaster, closingStock, auditedItems, locations, currentUser,
                   selectedLocation, camera, locationsDb, questionnaireAnswers, answersDb,
                   background>>

\* deleteQuestion: updatedAnswers
UpdatedAnswers(answers, questionId) == {a \in answers : a.questionId # questionId}

\* deleteQuestion
DeleteQuestion(questionId, del, ok1, ok2) ==
    /\ Quiet
    /\ Step
    /\ LET updatedQuestions == {q \in questions : q.id # questionId}
           updatedAnswers == UpdatedAnswers(questionnaireAnswers, questionId)
       IN  /\ questionsDb' = SetQuestionsTable(questionsDb, updatedQuestions, del, ok1)
           /\ IF SetQuestionsThrows(questionsDb, updatedQuestions, del, ok1)
                THEN /\ UNCHANGED <<questions, questionnaireAnswers, answersDb>>
                     /\ last' = QuestionReport("deleteQuestion", "threw", questionId, "", {}, {}, FALSE)
              ELSE IF SetAnswersThrows(updatedAnswers, ok2)
                THEN /\ questions' = updatedQuestions
                     /\ UNCHANGED <<questionnaireAnswers, answersDb>>
                     /\ last' = QuestionReport("deleteQuestion", "threw", questionId, "",
                                               updatedAnswers, {}, FALSE)
              ELSE /\ questions' = updatedQuestions
                   /\ answersDb' = SetAnswersTable(answersDb, updatedAnswers)
                   /\ questionnaireAnswers' = updatedAnswers
                   /\ last' = QuestionReport("deleteQuestion", "success", questionId, "",
                                             updatedAnswers, {}, FALSE)
    /\ UNCHANGED <<db, itemMaster, closingStock, auditedItems, locations, currentUser,
                   selectedLocation, camera, locationsDb, background>>

\* a save that always appends
WithAnswer_Append(answers, newAnswer) == answers \cup {newAnswer}

\* saveQuestionnaireAnswer: the answers findIndex can find
Found(answers, questionId, locationId) ==
    {a \in answers : a.questionId = questionId /\ a.locationId = locationId}

\* saveQuestionnaireAnswer: updatedAnswers, the answer found replaced, or the
\* new one appended
WithAnswer(answers, newAnswer) ==
    LET found == Found(answers, newAnswer.questionId, newAnswer.locationId)
    IN  IF found = {} THEN answers \cup {newAnswer}
        ELSE (answers \ {CHOOSE a \in found : TRUE}) \cup {newAnswer}

\* saveQuestionnaireAnswer
SaveQuestionnaireAnswer(questionId, locationId, answer, ok) ==
    /\ Quiet
    /\ Step
    /\ LET newAnswer == QuestionnaireAnswer(questionId, locationId, answer, clock')
           updatedAnswers == WithAnswer(questionnaireAnswers, newAnswer)
       IN  IF SetAnswersThrows(updatedAnswers, ok)
             THEN /\ UNCHANGED <<questionnaireAnswers, answersDb>>
                  /\ last' = QuestionReport("saveAnswer", "threw", questionId, locationId,
                                            updatedAnswers, {newAnswer}, FALSE)
             ELSE /\ answersDb' = SetAnswersTable(answersDb, updatedAnswers)
                  /\ questionnaireAnswers' = updatedAnswers
                  /\ last' = QuestionReport("saveAnswer", "success", questionId, locationId,
                                            updatedAnswers, {newAnswer},
                                            Found(questionnaireAnswers, questionId,
                                                  locationId) # {})
    /\ UNCHANGED <<db, itemMaster, closingStock, auditedItems, locations, currentUser,
                   selectedLocation, camera, locationsDb, questions, questionsDb,
                   background>>

\* the call c moves on to the phase given
Moved(c, phase) == (calls \ {c}) \cup {[c EXCEPT !.phase = phase]}

\* a call of saveQuestionnaireAnswer: the answer it was given, the
\* updatedAnswers it built from the questionnaireAnswers of its render, and
\* how far it has come ("write", then "returned" or "threw")
SaveCall(newAnswer, updatedAnswers, phase) ==
    [updatedAnswers |-> updatedAnswers, newAnswer |-> newAnswer, phase |-> phase]

\* saveQuestionnaireAnswer, up to the upsert it issues
BeginSaveQuestionnaireAnswer(questionId, locationId, answer) ==
    /\ Cardinality(calls) < MaxCalls
    /\ Step
    /\ LET newAnswer == QuestionnaireAnswer(questionId, locationId, answer, clock')
       IN  calls' = calls \cup
              {SaveCall(newAnswer, WithAnswer(questionnaireAnswers, newAnswer), "write")}
    /\ UNCHANGED <<db, itemMaster, closingStock, auditedItems, locations, currentUser,
                   selectedLocation, camera, importer, last, locationsDb, questionnaire,
                   isHardwareScannerMode, auth>>

\* SupabaseDataService.setQuestionnaireAnswers returns to
\* saveQuestionnaireAnswer, which sets the state to its updatedAnswers
SetQuestionnaireAnswersReturns(c, ok) ==
    /\ c \in calls /\ c.phase = "write"
    /\ IF SetAnswersThrows(c.updatedAnswers, ok)
         THEN /\ calls' = Moved(c, "threw")
              /\ UNCHANGED <<questionnaireAnswers, answersDb>>
              /\ last' = QuestionReport("saveAnswer", "threw", c.newAnswer.questionId,
                                        c.newAnswer.locationId, c.updatedAnswers,
                                        {c.newAnswer}, FALSE)
         ELSE /\ calls' = Moved(c, "returned")
              /\ answersDb' = SetAnswersTable(answersDb, c.updatedAnswers)
              /\ questionnaireAnswers' = c.updatedAnswers
              /\ last' = QuestionReport("saveAnswer", "success", c.newAnswer.questionId,
                                        c.newAnswer.locationId, c.updatedAnswers,
                                        {c.newAnswer}, FALSE)
    /\ UNCHANGED <<db, itemMaster, closingStock, auditedItems, locations, currentUser,
                   selectedLocation, camera, importer, clock, locationsDb, questions,
                   questionsDb, isHardwareScannerMode, auth>>

\* a get method of the service: it catches the error of its select and
\* returns [] (read: the select succeeded)
ReadOr(read, rows) == IF read THEN rows ELSE {}

\* the page is loaded again: the provider mounts and loadData reads the tables
LoadDataWith(masterRead, locationsRead) ==
    /\ Quiet
    /\ Step
    /\ itemMaster' = ReadOr(masterRead, GetItemMaster(db))
    /\ closingStock' = GetClosingStock(db)
    /\ auditedItems' = GetAuditedItems(db)
    /\ locations' = ReadOr(locationsRead, GetLocations(locationsDb))
    /\ questions' = GetQuestions(questionsDb)
    /\ questionnaireAnswers' = GetQuestionnaireAnswers(answersDb)
    /\ selectedLocation' = ""
    /\ camera' = CameraOff
    /\ last' = Report("load", "", "success", "", FALSE, NoKey, "none", {}, {}, FALSE)
    /\ UNCHANGED <<db, currentUser, locationsDb, questionsDb, answersDb, background>>

\* the load whose reads all succeed
LoadData == LoadDataWith(TRUE, TRUE)

(***************************************************************************)
(* The location registry: LocationForm.handleSave with the provider's      *)
(* addLocation as its onSave, and the provider's deleteLocation.           *)
(***************************************************************************)
\* the id the table generates for a row written without one
LocationId(now) == <<"n1", "n2", "n3", "n4", "n5", "n6">>[now]

LocationNames == {"", "L1", "L3"}

\* isLocationNameDuplicate (the utility is not among the sources)
IsLocationNameDuplicate(locs, name) == \E l \in locs : l.name = name

LocationReport(op, result, toast, locationId, name, write) ==
    Report(op, "", result, toast, FALSE, <<locationId, name>>, write, {}, {}, FALSE)

\* handleSave: try { onSave(newLocation); toast.success(...) } catch { ... };
\* onSave returns a promise the form does not wait for
SaveToast(write) == "Location added successfully"

\* LocationForm.handleSave -> addLocation -> updateLocation, getLocations
HandleSave(name, ok, read) ==
    /\ Quiet
    /\ Step
    /\ LET Rejected(toast) ==
               /\ UNCHANGED <<locations, locationsDb>>
               /\ last' = LocationReport("addLocation", "rejected", toast, "", name, "none")
           write == IF ok THEN "done" ELSE "failed"
       IN  IF name = "" THEN Rejected("Location name is required")
           ELSE IF IsLocationNameDuplicate(locations, name)
             THEN Rejected("A location with this name already exists")
           ELSE IF write = "failed"
             THEN /\ UNCHANGED <<locations, locationsDb>>
                  /\ last' = LocationReport("addLocation", "threw", SaveToast(write),
                                            "", name, write)
           ELSE /\ locationsDb' = locationsDb \cup {[id |-> LocationId(clock'), name |-> name]}
                /\ locations' = ReadOr(read, GetLocations(locationsDb'))
                /\ last' = LocationReport("addLocation", "success", SaveToast(write),
                                          LocationId(clock'), name, write)
    /\ UNCHANGED <<db, itemMaster, closingStock, auditedItems, currentUser,
                   selectedLocation, camera, questionnaire, background>>

\* deleteLocation: itemMaster.some(item => item.location === locationToDelete.name)
ItemsInLocation(master, name) == \E item \in master : item.location = name

\* InventoryProvider.deleteLocation
DeleteLocation(locationId, ok, read) ==
    /\ Quiet
    /\ Step
    /\ LET Unchanged(result, toast, write) ==
               /\ UNCHANGED <<locations, locationsDb>>
               /\ last' = LocationReport("deleteLocation", result, toast, locationId,
                                         LocationNameOf(locations, locationId), write)
       IN  IF ~\E loc \in locations : loc.id = locationId
             THEN Unchanged("returned", "", "none")
           ELSE IF ItemsInLocation(itemMaster, LocationNameOf(locations, locationId))
             THEN Unchanged("threw", "Cannot delete location that contains inventory items",
                            "none")
           ELSE IF ~ok THEN Unchanged("threw", "", "failed")
           ELSE /\ locationsDb' = {r \in locationsDb : r.id # locationId}
                /\ locations' = ReadOr(read, GetLocations(locationsDb'))
                /\ last' = LocationReport("deleteLocation", "success", "", locationId,
                                          LocationNameOf(locations, locationId), "done")
    /\ UNCHANGED <<db, itemMaster, closingStock, auditedItems, currentUser,
                   selectedLocation, camera, questionnaire, background>>

\* InventoryProvider.updateLocation: the row of the location is written with
\* the name given, and the locations are read again
UpdateLocation(locationId, name, ok, read) ==
    /\ Quiet
    /\ Step
    /\ LET write == IF ok THEN "done" ELSE "failed"
       IN  IF write = "failed"
             THEN /\ UNCHANGED <<locations, locationsDb>>
                  /\ last' = LocationReport("updateLocation", "threw", "", locationId,
                                            name, write)
             ELSE /\ locationsDb' = {r \in locationsDb : r.id # locationId}
                                       \cup {[id |-> locationId, name |-> name]}
                  /\ locations' = ReadOr(read, GetLocations(locationsDb'))
                  /\ last' = LocationReport("updateLocation", "success", "", locationId,
                                            name, write)
    /\ UNCHANGED <<db, itemMaster, closingStock, auditedItems, currentUser,
                   selectedLocation, camera, questionnaire, background>>

(***************************************************************************)
(* BarcodeScanner: a scan as the asynchronous call it is.  handleItemScan  *)
(* runs without a pause up to the upsert that updateAuditedItem issues;    *)
(* the upsert and the three reads of the refresh each return later, and    *)
(* other handlers run meanwhile.  No handler waits for a scan in progress. *)
(***************************************************************************)
\* a call of handleItemScan: its capture method, the catalog record it is
\* about, the rows handed to the upsert, the physical quantity it read, the
\* status it computed, and how far it has come ("write", "itemMaster",
\* "closingStock", "auditedItems", then "true" or "false", its result)
ScanCall(started, method, target, submitted, initial, status, warning, phase) ==
    [status |-> status, method |-> method, warning |-> warning, target |-> target,
     submitted |-> submitted, phase |-> phase, started |-> started,
     initial |-> initial]

\* the calls of handleItemScan that have not returned
Outstanding == {c \in calls : c.phase \notin {"true", "false"}}

\* handleItemScan(barcode, v.selectedLocation) of the render v, up to the
\* upsert it issues
BeginItemScan(method, v, barcode) ==
    /\ Cardinality(calls) < MaxCalls
    /\ Tick
    /\ LET locationId == v.selectedLocation
           name == LocationNameOf(v.locations, locationId)
           Rejected(toast, target) ==
               /\ UNCHANGED calls
               /\ last' = Report("scan", method, "rejected", toast, FALSE, target,
                                 "none", {}, {}, FALSE)
       IN  IF locationId = "" THEN Rejected("Location Required", NoKey)
           ELSE IF name = "" THEN Rejected("Invalid Location", NoKey)
           ELSE IF MasterMatches(v.itemMaster, barcode) = {}
             THEN Rejected("Item not found", NoKey)
           ELSE \E masterItem \in MasterMatches(v.itemMaster, barcode) :
             LET policy == LocationPolicy(v.currentUser,
                               AccessibleLocations(v.currentUser, v.locations),
                               masterItem, name)
                 locationName == ResolvedLocation(policy, name, masterItem)
                 existing == ExistingAudited(v.auditedItems, masterItem.sku, locationName)
                 itemToUpdate == ScanItemToUpdate(masterItem, locationName, existing,
                                                  clock')
                 dbItems == {InventoryItemToDb(ItemToUpdate(itemToUpdate, clock'))}
             IN  IF policy = "denied"
                   THEN Rejected("Access denied", KeyOf(masterItem))
                 ELSE /\ calls' = calls \cup
                           {ScanCall(clock', method, KeyOf(masterItem), dbItems,
                                     InitialPhysicalQuantity(existing),
                                     itemToUpdate.status, policy # "same", "write")}
                      /\ UNCHANGED last
    /\ UNCHANGED <<db, itemMaster, closingStock, auditedItems, locations, currentUser,
                   selectedLocation, camera, importer, locationsDb, questionnaire,
                   isHardwareScannerMode, auth>>

\* SupabaseDataService.setAuditedItems returns to updateAuditedItem: the
\* upsert is done, or it has failed and handleItemScan catches the error
SetAuditedItemsReturns(c, ok) ==
    /\ c \in calls /\ c.phase = "write"
    /\ LET write == WriteOutcome(c.submitted, ok)
       IN  IF ScanResult(write) = "rejected"
             THEN /\ calls' = Moved(c, "false")
                  /\ last' = Report("scan", c.method, "rejected", "Scanning Error",
                                    c.warning, c.target, write, c.submitted, {}, FALSE)
                  /\ UNCHANGED db
             ELSE /\ calls' = Moved(c, "itemMaster")
                  /\ db' = Upsert(db, c.submitted)
                  /\ UNCHANGED last
    /\ UNCHANGED <<itemMaster, closingStock, auditedItems, locations, currentUser,
                   selectedLocation, camera, importer, clock, locationsDb, questionnaire,
                   isHardwareScannerMode, auth>>

\* setItemMasterState(await SupabaseDataService.getItemMaster())
GetItemMasterReturns(c, read) ==
    /\ c \in calls /\ c.phase = "itemMaster"
    /\ itemMaster' = ReadOr(read, GetItemMaster(db))
    /\ calls' = Moved(c, "closingStock")
    /\ UNCHANGED <<db, closingStock, auditedItems, locations, currentUser,
                   selectedLocation, camera, importer, clock, last, locationsDb,
                   questionnaire, isHardwareScannerMode, auth>>

\* setClosingStockState(await SupabaseDataService.getClosingStock())
GetClosingStockReturns(c, read) ==
    /\ c \in calls /\ c.phase = "closingStock"
    /\ closingStock' = ReadOr(read, GetClosingStock(db))
    /\ calls' = Moved(c, "auditedItems")
    /\ UNCHANGED <<db, itemMaster, auditedItems, locations, currentUser,
                   selectedLocation, camera, importer, clock, last, locationsDb,
                   questionnaire, isHardwareScannerMode, auth>>

\* setAuditedItemsState(await SupabaseDataService.getAuditedItems()):
\* updateAuditedItem returns, handleItemScan shows its toast and returns true
GetAuditedItemsReturns(c, read) ==
    /\ c \in calls /\ c.phase = "auditedItems"
    /\ auditedItems' = ReadOr(read, GetAuditedItems(db))
    /\ calls' = Moved(c, "true")
    /\ last' = Report("scan", c.method, "success",
                      IF c.status = "matched"
                        THEN "Item scanned - Matched!"
                        ELSE "Item scanned - Discrepancy detected!",
                      c.warning, c.target, "done", c.submitted, {}, FALSE)
    /\ UNCHANGED <<db, itemMaster, closingStock, locations, currentUser,
                   selectedLocation, camera, importer, clock, locationsDb,
                   questionnaire, isHardwareScannerMode, auth>>

\* handleManualSubmit
HandleManualSubmit(barcode) ==
    /\ selectedLocation # ""
    /\ BeginItemScan("manual", CurrentView, barcode)

\* onScanSuccess, of the render that started the camera
OnScanSuccess(barcode) ==
    /\ camera.on
    /\ BeginItemScan("camera", camera.view, barcode)

\* handleKeyPress on Enter: the listener is bound again on every render
HandleKeyPress(barcode) ==
    /\ isHardwareScannerMode
    /\ selectedLocation # ""
    /\ BeginItemScan("hardware", CurrentView, barcode)

\* handleStartHardwareScanner
HandleStartHardwareScanner ==
    /\ selectedLocation # ""
    /\ ~isHardwareScannerMode
    /\ isHardwareScannerMode' = TRUE
    /\ UNCHANGED <<db, itemMaster, closingStock, auditedItems, locations, currentUser,
                   selectedLocation, camera, importer, clock, last, locationsDb,
                   questionnaire, calls, auth>>

\* handleStopHardwareScanner
HandleStopHardwareScanner ==
    /\ isHardwareScannerMode
    /\ isHardwareScannerMode' = FALSE
    /\ UNCHANGED <<db, itemMaster, closingStock, auditedItems, locations, currentUser,
                   selectedLocation, camera, importer, clock, last, locationsDb,
                   questionnaire, calls, auth>>

(***************************************************************************)
(* UserProvider: the session.  fetchSession runs on mount and on every     *)
(* SIGNED_IN, TOKEN_REFRESHED and USER_UPDATED event; it awaits the        *)
(* session, the profile and, for an administrator, the list of users, and  *)
(* sets the state after each.  auth.session is the user the auth service   *)
(* holds a session for, NoUser when it holds none.                         *)
(***************************************************************************)
\* a call of fetchSession: the user of the session it read, and the await
\* it is at ("getSession", "profile", "users", "signOut")
FetchCall(started, user, phase) == [user |-> user, phase |-> phase, started |-> started]

\* fetchSession(): setLoading(true), and getSession is awaited
FetchSession ==
    /\ calls' = calls \cup {FetchCall(clock', NoUser, "getSession")}
    /\ UNCHANGED <<db, itemMaster, closingStock, auditedItems, locations, currentUser,
                   selectedLocation, camera, importer, last, locationsDb, questionnaire,
                   isHardwareScannerMode>>

\* login: the auth service opens a session and the listener gets SIGNED_IN
SignedInEvent(user) ==
    /\ Step
    /\ auth.session = NoUser
    /\ auth' = [auth EXCEPT !.session = user, !.loading = TRUE]
    /\ FetchSession

\* the listener gets TOKEN_REFRESHED or USER_UPDATED
TokenRefreshedEvent ==
    /\ Step
    /\ auth.session # NoUser
    /\ auth' = [auth EXCEPT !.loading = TRUE]
    /\ FetchSession

\* logout: the auth service ends the session and the listener gets SIGNED_OUT
SignedOutEvent ==
    /\ Step
    /\ auth.session # NoUser
    /\ currentUser' = NoUser
    /\ auth' = [isAuthenticated |-> FALSE, users |-> {}, loading |-> FALSE,
                session |-> NoUser]
    /\ UNCHANGED <<db, itemMaster, closingStock, auditedItems, locations,
                   selectedLocation, camera, importer, last, locationsDb, questionnaire,
                   calls, isHardwareScannerMode>>

\* fetchSession: getSession returns
GetSessionReturns(c) ==
    /\ c \in calls /\ c.phase = "getSession"
    /\ IF auth.session # NoUser
         THEN /\ calls' = (calls \ {c}) \cup {FetchCall(c.started, auth.session, "profile")}
              /\ UNCHANGED <<currentUser, auth>>
         ELSE /\ calls' = calls \ {c}
              /\ currentUser' = NoUser
              /\ auth' = [auth EXCEPT !.isAuthenticated = FALSE, !.loading = FALSE]
    /\ UNCHANGED <<db, itemMaster, closingStock, auditedItems, locations,
                   selectedLocation, camera, importer, clock, last, locationsDb,
                   questionnaire, isHardwareScannerMode>>

\* fetchSession: the select of the profile returns, with the profile or
\* without one
ProfileReturns(c, found) ==
    /\ c \in calls /\ c.phase = "profile"
    /\ IF ~found
         THEN /\ calls' = Moved(c, "signOut")
              /\ UNCHANGED <<currentUser, auth>>
         ELSE /\ currentUser' = c.user
              /\ IF c.user.role # "admin"
                   THEN /\ calls' = calls \ {c}
                        /\ auth' = [auth EXCEPT !.isAuthenticated = TRUE, !.users = {},
                                                !.loading = FALSE]
                   ELSE /\ calls' = Moved(c, "users")
                        /\ auth' = [auth EXCEPT !.isAuthenticated = TRUE]
    /\ UNCHANGED <<db, itemMaster, closingStock, auditedItems, locations,
                   selectedLocation, camera, importer, clock, last, locationsDb,
                   questionnaire, isHardwareScannerMode>>

\* fetchSession: fetchAllUsers returns, with the users or after an error
FetchAllUsersReturns(c, ok) ==
    /\ c \in calls /\ c.phase = "users"
    /\ calls' = calls \ {c}
    /\ auth' = [auth EXCEPT !.users = IF ok THEN Users ELSE @, !.loading = FALSE]
    /\ UNCHANGED <<db, itemMaster, closingStock, auditedItems, locations, currentUser,
                   selectedLocation, camera, importer, clock, last, locationsDb,
                   questionnaire, isHardwareScannerMode>>

\* fetchSession: no profile, signOut returns; the listener has had SIGNED_OUT
SignOutReturns(c) ==
    /\ c \in calls /\ c.phase = "signOut"
    /\ calls' = calls \ {c}
    /\ currentUser' = NoUser
    /\ auth' = [isAuthenticated |-> FALSE, users |-> {}, loading |-> FALSE,
                session |-> NoUser]
    /\ UNCHANGED <<db, itemMaster, closingStock, auditedItems, locations,
                   selectedLocation, camera, importer, clock, last, locationsDb,
                   questionnaire, isHardwareScannerMode>>

Next ==
    \/ \E K \in KeySets : ImportItemMaster(CatalogItems(K))
    \/ \E K \in KeySets, qty \in 1..MaxQty, hasName \in BOOLEAN :
          ImportClosingStock(ClosingItems(K, qty, hasName))
    \/ \E K1, K2 \in KeySets, qty \in 1..MaxQty, hasName \in BOOLEAN :
          ImportBoth(CatalogItems(K1), ClosingItems(K2, qty, hasName))
    \/ ContinueImport
    \/ \E barcode \in Barcodes, ok \in BOOLEAN : ManualScan(barcode, ok)
    \/ \E barcode \in Barcodes, ok \in BOOLEAN : CameraScan(barcode, ok)
    \/ \E id \in LocIds : SelectLocation(id)
    \/ StartScanning
    \/ StopScanning
    \/ \E item \in SearchResults, quantity \in 0..MaxQty, ok \in BOOLEAN :
          AddItemToAudit(item, quantity, ok)
    \/ ClearAllData

Spec == Init /\ [][Next]_vars

\* the questionnaire: its questions are managed and answered, and the page
\* is loaded again
QuestionnaireNext ==
    \/ \E del, ok \in BOOLEAN : AddQuestion(del, ok)
    \/ \E q \in questions, del, ok1, ok2 \in BOOLEAN : DeleteQuestion(q.id, del, ok1, ok2)
    \/ \E q \in questions, l \in locations, answer \in AnswerValues, ok \in BOOLEAN :
          SaveQuestionnaireAnswer(q.id, l.id, answer, ok)
    \/ LoadData
    \/ ClearAllData

QuestionnaireSpec == Init /\ [][QuestionnaireNext]_vars

\* the location registry: the catalog is imported and audited, locations are
\* added and deleted, and the page is loaded again with reads that may fail
RegistryNext ==
    \/ \E K \in KeySets : ImportItemMaster(CatalogItems(K))
    \/ \E item \in SearchResults, quantity \in 0..MaxQty, ok \in BOOLEAN :
          AddItemToAudit(item, quantity, ok)
    \/ \E name \in LocationNames, ok, read \in BOOLEAN : HandleSave(name, ok, read)
    \/ \E r \in locationsDb, ok, read \in BOOLEAN : DeleteLocation(r.id, ok, read)
    \/ \E masterRead, locationsRead \in BOOLEAN : LoadDataWith(masterRead, locationsRead)
    \/ ClearAllData

RegistrySpec == Init /\ [][RegistryNext]_vars

\* the location ids handleItemScan is called with: none, the known ones,
\* and one no location has
ScanLocationIds == {""} \cup LocIds \cup {"l9"}

\* handleItemScan as a function of its arguments, over the catalogs the
\* imports and the audits produce
ScanNext ==
    \/ \E K \in KeySets : ImportItemMaster(CatalogItems(K))
    \/ \E barcode \in Barcodes, locationId \in ScanLocationIds, ok \in BOOLEAN :
          ItemScan(barcode, locationId, ok)
    \/ ClearAllData

ScanSpec == Init /\ [][ScanNext]_vars

\* the record sets the summaries are computed over: the administrator has
\* imported a catalog with any of these rows, at locations known and unknown
SummaryKeys == {<<"A1", "L1">>, <<"A1", "L2">>, <<"A1", "L3">>, <<"B2", "L1">>}

SummaryInit ==
    /\ \E K \in SUBSET SummaryKeys :
          db = Upsert({}, {InventoryItemToDb(i) : i \in CatalogItems(K)})
    /\ itemMaster = GetItemMaster(db)
    /\ closingStock = GetClosingStock(db)
    /\ auditedItems = GetAuditedItems(db)
    /\ locationsDb = AllLocations
    /\ locations = GetLocations(locationsDb)
    /\ questionsDb = {}
    /\ questions = {}
    /\ answersDb = {}
    /\ questionnaireAnswers = {}
    /\ currentUser \in {u \in Users : u.role = "admin"}
    /\ selectedLocation = ""
    /\ camera = CameraOff
    /\ importer = NoImport
    /\ calls = {}
    /\ isHardwareScannerMode = FALSE
    /\ auth = SignedIn(currentUser)
    /\ clock = 0
    /\ last = Report("none", "", "", "", FALSE, NoKey, "none", {}, {}, FALSE)

\* records are audited and cleared; the summaries are functions of the state
SummaryNext ==
    \/ \E item \in SearchResults, quantity \in 0..MaxQty, ok \in BOOLEAN :
          AddItemToAudit(item, quantity, ok)
    \/ ClearAllData

SummarySpec == SummaryInit /\ [][SummaryNext]_vars

\* the files an import is given: rows, or nothing that parses
CatalogFiles == {CatalogItems(K) : K \in KeySets} \cup {{}}
ClosingFiles == {ClosingItems(K, MaxQty, TRUE) : K \in KeySets} \cup {{}}

\* the uploader, given files that may be empty
ImportNext ==
    \/ \E items \in CatalogFiles : ImportItemMaster(items)
    \/ \E items \in ClosingFiles : ImportClosingStock(items)
    \/ \E itemMasterFile \in CatalogFiles, closingStockFile \in ClosingFiles :
          ImportBoth(itemMasterFile, closingStockFile)
    \/ ContinueImport
    \/ ClearAllData

ImportSpec == Init /\ [][ImportNext]_vars

\* the pages that list records: the catalog is imported, a location is
\* selected, items are audited, and the profile is read again after it was
\* changed
VisibilityNext ==
    \/ \E K \in KeySets : ImportItemMaster(CatalogItems(K))
    \/ \E id \in LocIds : SelectLocation(id)
    \/ \E item \in SearchResults, quantity \in 0..MaxQty, ok \in BOOLEAN :
          AddItemToAudit(item, quantity, ok)
    \/ \E profile \in Users, remount \in BOOLEAN : ProfileRefreshed(profile, remount)

VisibilitySpec == Init /\ [][VisibilityNext]_vars

\* the system quantity of the record whose scans are counted
CountedQuantity == 2

\* the scanner over a closing stock whose records stand at CountedQuantity
\* and have no count yet
CountInit ==
    /\ \E K \in {k \in KeySets : <<"A1", "L1">> \in k} :
          db = Upsert({}, {InventoryItemToDb(i) :
                              i \in ClosingItems(K, CountedQuantity, TRUE)})
    /\ itemMaster = GetItemMaster(db)
    /\ closingStock = GetClosingStock(db)
    /\ auditedItems = GetAuditedItems(db)
    /\ locationsDb = AllLocations
    /\ locations = GetLocations(locationsDb)
    /\ questionsDb = {}
    /\ questions = {}
    /\ answersDb = {}
    /\ questionnaireAnswers = {}
    /\ currentUser \in Users
    /\ selectedLocation = ""
    /\ camera = CameraOff
    /\ importer = NoImport
    /\ calls = {}
    /\ isHardwareScannerMode = FALSE
    /\ auth = SignedIn(currentUser)
    /\ clock = 0
    /\ last = Report("none", "", "", "", FALSE, NoKey, "none", {}, {}, FALSE)

\* a scanner session: a location is selected, the camera is started and
\* stopped, codes come from the form and from the camera
CountNext ==
    \/ \E barcode \in Barcodes, ok \in BOOLEAN : ManualScan(barcode, ok)
    \/ \E barcode \in Barcodes, ok \in BOOLEAN : CameraScan(barcode, ok)
    \/ \E id \in LocIds : SelectLocation(id)
    \/ StartScanning
    \/ StopScanning

CountSpec == CountInit /\ [][CountNext]_vars

\* the scanner of an administrator over one record, A1 at L1, which stands
\* at CountedQuantity and has no count yet
ScannerInit ==
    /\ db = Upsert({}, {InventoryItemToDb(i) :
                           i \in ClosingItems({<<"A1", "L1">>}, CountedQuantity, TRUE)})
    /\ itemMaster = GetItemMaster(db)
    /\ closingStock = GetClosingStock(db)
    /\ auditedItems = GetAuditedItems(db)
    /\ locationsDb = AllLocations
    /\ locations = GetLocations(locationsDb)
    /\ questionsDb = {}
    /\ questions = {}
    /\ answersDb = {}
    /\ questionnaireAnswers = {}
    /\ currentUser \in {u \in Users : u.role = "admin"}
    /\ selectedLocation = ""
    /\ camera = CameraOff
    /\ importer = NoImport
    /\ calls = {}
    /\ isHardwareScannerMode = FALSE
    /\ auth = SignedIn(currentUser)
    /\ clock = 0
    /\ last = Report("none", "", "", "", FALSE, NoKey, "none", {}, {}, FALSE)

\* a scanner session whose scans are asynchronous: codes come from the form,
\* the camera and the hardware scanner while earlier scans are on their way
ScannerNext ==
    \/ \E barcode \in Barcodes : HandleManualSubmit(barcode)
    \/ \E barcode \in Barcodes : OnScanSuccess(barcode)
    \/ \E barcode \in Barcodes : HandleKeyPress(barcode)
    \/ \E c \in calls, ok \in BOOLEAN : SetAuditedItemsReturns(c, ok)
    \/ \E c \in calls : GetItemMasterReturns(c, TRUE)
    \/ \E c \in calls : GetClosingStockReturns(c, TRUE)
    \/ \E c \in calls : GetAuditedItemsReturns(c, TRUE)
    \/ \E id \in LocIds : SelectLocation(id)
    \/ StartScanning
    \/ StopScanning
    \/ HandleStartHardwareScanner
    \/ HandleStopHardwareScanner

ScannerSpec == ScannerInit /\ [][ScannerNext]_vars

\* scans from the form whose upsert and whose refresh reads may fail
RefreshNext ==
    \/ \E barcode \in Barcodes : HandleManualSubmit(barcode)
    \/ \E c \in calls, ok \in BOOLEAN : SetAuditedItemsReturns(c, ok)
    \/ \E c \in calls, read \in BOOLEAN : GetItemMasterReturns(c, read)
    \/ \E c \in calls, read \in BOOLEAN : GetClosingStockReturns(c, read)
    \/ \E c \in calls, read \in BOOLEAN : GetAuditedItemsReturns(c, read)
    \/ \E id \in LocIds : SelectLocation(id)

RefreshSpec == CountInit /\ [][RefreshNext]_vars

\* the questionnaire answered while earlier saves are on their way
AnswerNext ==
    \/ \E del, ok \in BOOLEAN : AddQuestion(del, ok)
    \/ \E q \in questions, l \in locations, answer \in AnswerValues :
          BeginSaveQuestionnaireAnswer(q.id, l.id, answer)
    \/ \E c \in calls, ok \in BOOLEAN : SetQuestionnaireAnswersReturns(c, ok)

AnswerSpec == Init /\ [][AnswerNext]_vars

\* UserProvider mounts: no profile yet, the loader is shown, fetchSession
\* has been called, and the auth service holds a session or none
SessionInit ==
    /\ db = {}
    /\ itemMaster = {}
    /\ closingStock = {}
    /\ auditedItems = {}
    /\ locationsDb = AllLocations
    /\ locations = {}
    /\ questionsDb = {}
    /\ questions = {}
    /\ answersDb = {}
    /\ questionnaireAnswers = {}
    /\ currentUser = NoUser
    /\ selectedLocation = ""
    /\ camera = CameraOff
    /\ importer = NoImport
    /\ calls = {FetchCall(0, NoUser, "getSession")}
    /\ isHardwareScannerMode = FALSE
    /\ \E user \in Users \cup {NoUser} :
          auth = [isAuthenticated |-> FALSE, users |-> {}, loading |-> TRUE,
                  session |-> user]
    /\ clock = 0
    /\ last = Report("none", "", "", "", FALSE, NoKey, "none", {}, {}, FALSE)

\* auth events arrive while calls of fetchSession are on their way
SessionNext ==
    \/ \E user \in Users : SignedInEvent(user)
    \/ TokenRefreshedEvent
    \/ SignedOutEvent
    \/ \E c \in calls : GetSessionReturns(c)
    \/ \E c \in calls, found \in BOOLEAN : ProfileReturns(c, found)
    \/ \E c \in calls, ok \in BOOLEAN : FetchAllUsersReturns(c, ok)
    \/ \E c \in calls : SignOutReturns(c)

SessionSpec == SessionInit /\ [][SessionNext]_vars

\* the location registry with renaming, all reads succeeding: the catalog is
\* imported and audited, locations are added, renamed and deleted
RenameNext ==
    \/ \E K \in KeySets : ImportItemMaster(CatalogItems(K))
    \/ \E item \in SearchResults, quantity \in 0..MaxQty, ok \in BOOLEAN :
          AddItemToAudit(item, quantity, ok)
    \/ \E name \in LocationNames, ok \in BOOLEAN : HandleSave(name, ok, TRUE)
    \/ \E l \in locations, name \in LocationNames \ {""}, ok \in BOOLEAN :
          UpdateLocation(l.id, name, ok, TRUE)
    \/ \E r \in locationsDb, ok \in BOOLEAN : DeleteLocation(r.id, ok, TRUE)

RenameSpec == Init /\ [][RenameNext]_vars

(***************************************************************************)
(* Properties of the reconciliation engine.                                *)
(***************************************************************************)
Absent(q) == q \in {Undef, Null}

\* every record the provider holds, and every persisted row in record form
AllRecords == itemMaster \cup closingStock \cup auditedItems
                  \cup {DbToInventoryItem(r) : r \in db}

\* C1: in every reachable state, after any of the operations, a record with
\* a physical quantity has status matched or discrepancy, and a record
\* without one has status pending.
C1_StatusShape ==
    \A r \in AllRecords :
        IF Absent(r.physicalQuantity)
          THEN r.status = "pending"
          ELSE r.status \in {"matched", "discrepancy"}

\* a catalog import has just put an audited record back to pending
C1_Witness ==
    /\ last.op = "catalog"
    /\ last.result = "success"
    /\ \E a \in auditedItems, r \in db :
          /\ KeyOf(a) = KeyOf(r)
          /\ ~Absent(a.physicalQuantity)
          /\ r.physical_quantity = Null
          /\ r.status = "pending"

\* C2: no record with a physical quantity has a status that disagrees with
\* the comparison of its two quantities, also after a closing-stock import
\* has overwritten the system quantity of an audited record.
C2_NoStatusDrift ==
    \A r \in AllRecords :
        ~Absent(r.physicalQuantity) =>
            /\ r.status = "matched" <=> r.physicalQuantity = r.systemQuantity
            /\ r.status = "discrepancy" <=> r.physicalQuantity # r.systemQuantity

\* the step is one run of the operation op
OpStep(op) == clock' = clock + 1 /\ last'.op = op

\* the render the scan of this step ran in
HandlerView == IF last'.method = "camera" THEN camera.view ELSE CurrentView

\* the name of the location that render had selected
HandlerLocationName ==
    LET ls == {l \in HandlerView.locations : l.id = HandlerView.selectedLocation}
    IN  IF ls = {} THEN "" ELSE (CHOOSE l \in ls : TRUE).name

\* the names of the locations assigned to the caller of that render
HandlerAssignedNames ==
    {l.name : l \in {x \in HandlerView.locations :
                        x.id \in HandlerView.currentUser.assignedLocations}}

\* the physical quantity the table holds under a key, 0 when it holds none
PersistedQuantity(table, key) ==
    LET rows == {r \in table : KeyOf(r) = key}
    IN  IF rows = {} \/ (CHOOSE r \in rows : TRUE).physical_quantity = Null
          THEN 0
          ELSE (CHOOSE r \in rows : TRUE).physical_quantity

\* C3: a successful scan raises the physical quantity of the record it is
\* about by exactly one, counting from 0 when the record has none; so n
\* scans in sequence raise it by n.
C3_ScanIncrements ==
    [][(OpStep("scan") /\ last'.result = "success") =>
          PersistedQuantity(db', last'.target)
              = PersistedQuantity(db, last'.target) + 1]_vars

\* C4: when the caller is not an administrator and the scanned identifier
\* resolves to a catalog record at a location that is neither the selected
\* one nor one the caller may access, the scan returns false with Access
\* denied, issues no write, and leaves the catalog, the audited records and
\* the table as they were; no scan by such a caller changes a row at a
\* location the caller may not access.
C4_AccessDenied ==
    [][(OpStep("scan") /\ HandlerView.currentUser.role # "admin") =>
          /\ (/\ last'.target # NoKey
              /\ last'.target[2] # HandlerLocationName
              /\ last'.target[2] \notin HandlerAssignedNames)
                => /\ last'.result = "rejected"
                   /\ last'.toast = "Access denied"
                   /\ last'.write = "none"
                   /\ last'.submitted = {}
                   /\ UNCHANGED <<db, itemMaster, closingStock, auditedItems>>
          /\ {r \in db' : r.location \notin HandlerAssignedNames}
                = {r \in db : r.location \notin HandlerAssignedNames}]_vars

\* an auditor's scan has been denied while the table holds the record
C4_Witness ==
    /\ last.op = "scan"
    /\ last.toast = "Access denied"
    /\ currentUser.role = "auditor"
    /\ \E r \in db : KeyOf(r) = last.target

\* C5: when the scanned identifier resolves to a catalog record at another
\* location than the selected one and the caller is an administrator or
\* may access that location, the scan is not denied; the row it submits is
\* the record of (SKU, actual location) with its quantity raised by one;
\* the outcome carries a warning; and a committed scan changes that row and
\* no other, so nothing appears or changes under the selected location.
C5_LocationCorrected ==
    [][(/\ OpStep("scan")
        /\ last'.target # NoKey
        /\ last'.target[2] # HandlerLocationName
        /\ \/ HandlerView.currentUser.role = "admin"
           \/ last'.target[2] \in HandlerAssignedNames) =>
          LET existing == {a \in HandlerView.auditedItems : KeyOf(a) = last'.target}
              start == IF existing = {} \/ Absent((CHOOSE a \in existing : TRUE).physicalQuantity)
                         THEN 0
                         ELSE (CHOOSE a \in existing : TRUE).physicalQuantity
          IN  /\ last'.toast # "Access denied"
              /\ last'.warning
              /\ Cardinality(last'.submitted) = 1
              /\ \A p \in last'.submitted :
                    /\ KeyOf(p) = last'.target
                    /\ p.physical_quantity = start + 1
                    /\ last'.write = "done" =>
                          /\ last'.result = "success"
                          /\ \E r \in db' : /\ KeyOf(r) = last'.target
                                            /\ r.physical_quantity = start + 1
                          /\ {r \in db' : KeyOf(r) # last'.target}
                                = {r \in db : KeyOf(r) # last'.target}]_vars

\* an auditor's scan has been redirected to the record's own location and
\* committed there
C5_Witness ==
    /\ last.op = "scan"
    /\ last.result = "success"
    /\ last.warning
    /\ currentUser.role = "auditor"
    /\ \E r \in db : KeyOf(r) = last.target /\ r.physical_quantity >= 1

\* C6: when the upsert of a scan fails, the scan returns false and the
\* item master, the closing stock and the audited records stay as they
\* were.
C6_FailedScanIsClean ==
    [][(OpStep("scan") /\ last'.write = "failed") =>
          /\ last'.result = "rejected"
          /\ last'.toast = "Scanning Error"
          /\ UNCHANGED <<db, itemMaster, closingStock, auditedItems>>]_vars

\* the upsert of a scan has failed while audited records exist
C6_Witness ==
    /\ last.op = "scan"
    /\ last.write = "failed"
    /\ auditedItems # {}

\* text that is neither undefined nor null nor empty
Present(t) == t \notin {UndefS, NullS, ""}

\* C7: for an incoming closing-stock row whose (SKU, location) is in the
\* item master, the row handed to the upsert and the record that results
\* equal the existing record in every field (name, category, physical
\* quantity, status, notes, last audited) except the system quantity, which
\* is the incoming one.
C7_MergeKeepsFields ==
    [][OpStep("closing") =>
          \A b \in last'.batch : \A e \in itemMaster :
              KeyOf(e) = KeyOf(b) =>
                  /\ \E p \in last'.submitted :
                        /\ KeyOf(p) = KeyOf(e)
                        /\ p.name = e.name
                        /\ p.physical_quantity = e.physicalQuantity
                        /\ p.status = e.status
                        /\ p.notes = e.notes
                        /\ p.last_audited = e.lastAudited
                        /\ p.system_quantity = b.systemQuantity
                  /\ last'.result = "success" =>
                        \E i \in itemMaster' :
                            i = [e EXCEPT !.systemQuantity = b.systemQuantity]]_vars

\* C8: no row is handed to the upsert without a name; a closing-stock row
\* for a new (SKU, location) that has no name is turned away before any
\* write is issued.
C8_NamedRowsOnly ==
    \A p \in last.submitted : Present(p.name)

\* C9: the name and category of a record are not lost: after a catalog
\* import has been stored and read back, each imported record has the name
\* and category it was imported with.
C9_RoundTripKeeps ==
    (last.op = "catalog" /\ last.result = "success") =>
        \A b \in last.batch :
            (Present(b.name) /\ Present(b.category)) =>
                \E i \in itemMaster :
                    /\ KeyOf(i) = KeyOf(b)
                    /\ i.name = b.name
                    /\ i.category = b.category

C11_DeleteCascades ==
    [][(OpStep("deleteQuestion") /\ last'.result = "success") =>
          LET questionId == last'.target[1]
          IN  /\ \A q \in questions' \cup questionsDb' : q.id # questionId
              /\ \A a \in questionnaireAnswers' : a.questionId # questionId
              /\ \A r \in answersDb' : r.question_id # questionId]_vars

\* the answers of a set, or the rows of a table, under a key
AnswersAt(answers, key) == Found(answers, key[1], key[2])
RowsAt(table, key) == {r \in table : r.question_id = key[1] /\ r.location_id = key[2]}

\* C12: the provider state and the table hold at most one answer per
\* (questionId, locationId); after a save that succeeds the key holds the
\* answer just given, in memory and in the table, and the answers under the
\* other keys are as they were
C12_SingleAnswer ==
    [][/\ \A a, b \in questionnaireAnswers' :
             (a.questionId = b.questionId /\ a.locationId = b.locationId) => a = b
       /\ \A r, t \in answersDb' :
             (r.question_id = t.question_id /\ r.location_id = t.location_id) => r = t
       /\ (OpStep("saveAnswer") /\ last'.result = "success") =>
             LET key == last'.target
             IN  /\ AnswersAt(questionnaireAnswers', key) = last'.batch
                 /\ RowsAt(answersDb', key) = {AnswerToDb(a) : a \in last'.batch}
                 /\ questionnaireAnswers' \ AnswersAt(questionnaireAnswers', key)
                      = questionnaireAnswers \ AnswersAt(questionnaireAnswers, key)
                 /\ answersDb' \ RowsAt(answersDb', key)
                      = answersDb \ RowsAt(answersDb, key)]_vars

\* a save has replaced the earlier answer of its key, and an answer under
\* another key is on record
C12_Witness ==
    /\ last.op = "saveAnswer"
    /\ last.result = "success"
    /\ last.repeat
    /\ \E a \in questionnaireAnswers :
          /\ <<a.questionId, a.locationId>> # last.target
          /\ \E r \in answersDb : r = AnswerToDb(a)
    /\ \E r \in RowsAt(answersDb, last.target) : r.answered_on = clock

(***************************************************************************)
(* Properties of the location registry.                                    *)
(***************************************************************************)
\* a persisted record has the location name of the persisted location id
Referenced(locationId) ==
    \E l \in locationsDb, r \in db : l.id = locationId /\ r.location = l.name

\* C13: a deleteLocation(id) made while a record has the location's name
\* ends in an error and leaves the location list and the table as they
\* were; made while no record has it, and unless the delete itself fails,
\* it succeeds and the location is in neither afterwards
C13_DeletionGuard ==
    [][OpStep("deleteLocation") =>
          LET locationId == last'.target[1]
          IN  /\ Referenced(locationId) =>
                    /\ last'.result = "threw"
                    /\ UNCHANGED <<locations, locationsDb>>
              /\ (~Referenced(locationId) /\ last'.write # "failed") =>
                    /\ last'.result = "success"
                    /\ \A l \in locations' \cup locationsDb' : l.id # locationId]_vars

(***************************************************************************)
(* Properties of the summaries.                                            *)
(***************************************************************************)
\* the summary of a set of records as the design defines it
SummaryOf(records) ==
    LET audited == {r \in records : ~Absent(r.physicalQuantity)}
    IN  Summary(Cardinality(records),
                Cardinality({<<r.sku, r.location>> : r \in audited}),
                Cardinality({r \in audited : r.status = "matched"}),
                Cardinality({r \in audited : r.status = "discrepancy"}))

\* the location names a summary can be asked for
SummaryNames == {l.name : l \in AllLocations} \cup {"L3"}

\* C14: the global summary is the summary of the provider's records: their
\* number, the number of distinct (sku, location) pairs with a physical
\* quantity, the difference of the two, and the audited records by status;
\* the summary of a location is the same over the records at that location
C14_SummaryFields ==
    /\ GetInventorySummary(itemMaster, auditedItems) = SummaryOf(itemMaster)
    /\ \A name \in SummaryNames :
          GetLocationSummary(itemMaster, auditedItems, name)
            = SummaryOf({r \in itemMaster : r.location = name})

(***************************************************************************)
(* Properties of the pages.                                                *)
(***************************************************************************)
\* the records a user may see: all for an administrator, for the others
\* those whose location name is the name of an assigned location
VisibleRecords(user, locs, records) ==
    IF user.role = "admin" THEN records
    ELSE {r \in records :
            \E l \in locs : l.id \in user.assignedLocations /\ l.name = r.location}

C16_RejectedScanIsClean ==
    [][\A barcode \in Barcodes, locationId \in ScanLocationIds, ok \in BOOLEAN :
          (/\ ItemScan(barcode, locationId, ok)
           /\ \/ locationId = ""
              \/ \A loc \in locations : loc.id # locationId
              \/ \A item \in itemMaster : item.id # barcode /\ item.sku # barcode)
          => /\ last'.result = "rejected"
             /\ last'.write = "none"
             /\ last'.submitted = {}
             /\ UNCHANGED <<db, itemMaster, closingStock, auditedItems>>]_vars

\* a scan of a code the catalog does not hold has been rejected while the
\* catalog and the audit held records
C16_Witness ==
    /\ last.op = "scan"
    /\ last.result = "rejected"
    /\ last.toast = "Item not found"
    /\ itemMaster # {}
    /\ auditedItems # {}

(***************************************************************************)
(* Properties of the uploader.                                             *)
(***************************************************************************)
\* the import step reported the error and wrote nothing
RejectedClean ==
    /\ last'.result = "rejected"
    /\ last'.toast = "Invalid file format or empty file"
    /\ last'.write = "none"
    /\ UNCHANGED <<db, itemMaster, closingStock, auditedItems>>

\* C17: an import given a file with no rows reports the error and calls
\* neither setItemMaster nor setClosingStock for it; when a catalog file and
\* a closing-stock file are given together and one of them has no rows, the
\* records after the import are the records before it
C17_EmptyImportRejected ==
    [][/\ (ImportItemMaster({}) \/ ImportClosingStock({})) => RejectedClean
       /\ \A closingStockFile \in ClosingFiles :
             ImportBoth({}, closingStockFile) => (RejectedClean /\ importer' = NoImport)
       /\ (ContinueImport /\ importer.closingStockFile = {}) =>
             (RejectedClean /\ itemMaster' = importer.view)]_vars

(***************************************************************************)
(* Properties of the forms that write.                                     *)
(***************************************************************************)
\* C18: when the write of a manual audit entry or of a new location fails,
\* the form reports no success, the call ends in the error, and the
\* provider state is as it was
C18_WriteFailureSurfaced ==
    [][(/\ clock' = clock + 1
        /\ last'.op \in {"manual", "addLocation"}
        /\ last'.write = "failed")
       => /\ last'.toast \notin {"Item added to audit", "Location added successfully"}
          /\ last'.result = "threw"
          /\ UNCHANGED <<itemMaster, closingStock, auditedItems, locations>>]_vars

(***************************************************************************)
(* Properties of the completion percentage.                                *)
(***************************************************************************)
\* the summaries a page can be showing: the global one and that of each
\* location
ShownSummaries ==
    {GetInventorySummary(itemMaster, auditedItems)}
        \cup {GetLocationSummary(itemMaster, auditedItems, l.name) : l \in locations}

\* C19: for every summary a page can show, the percentage of the overview
\* and the reports, and the progress of the location audit summary where it
\* is shown, are round(auditedItems / totalItems * 100), or 0 when
\* totalItems is 0, and lie between 0 and 100
C19_CompletionPercentage ==
    \A summary \in ShownSummaries :
        LET percentage == IF summary.totalItems = 0 THEN 0
                          ELSE RoundedPercent(summary.auditedItems, summary.totalItems)
        IN  /\ percentage \in 0..100
            /\ CompletionPercentage(summary) = percentage
            /\ summary.auditedItems > 0 => Progress(summary) = percentage

(***************************************************************************)
(* Properties of the summaries as functions.                               *)
(***************************************************************************)
RECURSIVE SumOfTotals(_, _, _)
\* the sum of getLocationSummary(name).totalItems over a set of names
SumOfTotals(names, master, audited) ==
    IF names = {} THEN 0
    ELSE LET name == CHOOSE n \in names : TRUE
         IN  GetLocationSummary(master, audited, name).totalItems
               + SumOfTotals(names \ {name}, master, audited)

\* C20: the totalItems of the global summary is the sum of the totalItems of
\* the location summaries over the distinct location names of the records
C20_SummaryConsistency ==
    GetInventorySummary(itemMaster, auditedItems).totalItems
      = SumOfTotals({r.location : r \in itemMaster}, itemMaster, auditedItems)

\* records at three locations, two of them at one, some of them audited
C20_Witness ==
    /\ Cardinality(itemMaster) = 4
    /\ Cardinality({r.location : r \in itemMaster}) = 3
    /\ auditedItems # {}
    /\ last.op = "manual"

(***************************************************************************)
(* Properties of scans counted against a system quantity.                  *)
(***************************************************************************)
\* the status the table holds under a key, "" when it holds no row
PersistedStatus(table, key) ==
    LET rows == {r \in table : KeyOf(r) = key}
    IN  IF rows = {} THEN "" ELSE (CHOOSE r \in rows : TRUE).status

\* a scan of the record A1 at L1 has succeeded in this step
CountedScan == OpStep("scan") /\ last'.result = "success" /\ last'.target = <<"A1", "L1">>

C22_SingleActiveScan == Cardinality(Outstanding) <= 1

\* the upsert of the call c is done in this step
Committed(c) == c.phase = "write" /\ [c EXCEPT !.phase = "itemMaster"] \in calls'

\* C23: the upsert of a scan stores the quantity the scan read plus one,
\* whatever the table holds by then; so of two scans of one record that both
\* read before either commits, the second to commit adds nothing to the
\* count of the first, and both return true
C23_StaleScanOverwrites ==
    [][\A c \in calls :
          Committed(c) => PersistedQuantity(db', c.target) = c.initial + 1]_vars

\* two scans of A1 at L1 have both read 0 and both returned true, and the
\* table holds 1
C23_Witness ==
    \E c1, c2 \in calls :
        /\ c1 # c2
        /\ c1.phase = "true" /\ c2.phase = "true"
        /\ c1.target = <<"A1", "L1">> /\ c2.target = <<"A1", "L1">>
        /\ c1.initial = 0 /\ c2.initial = 0
        /\ PersistedQuantity(db, <<"A1", "L1">>) = 1

\* the call c returns true in this step
Returned(c) == c.phase = "auditedItems" /\ [c EXCEPT !.phase = "true"] \in calls'

\* C24: once updateAuditedItem has returned for a scan, itemMaster and
\* auditedItems hold exactly the persisted records, the scanned record with
\* its new physical quantity, status and lastAudited among them, also when a
\* read of the refresh failed
C24_RefreshMirrorsTable ==
    [][\A c \in calls :
          Returned(c) =>
              /\ itemMaster' = GetItemMaster(db')
              /\ auditedItems' = GetAuditedItems(db')
              /\ \A r \in c.submitted :
                    \E a \in auditedItems' :
                        /\ KeyOf(a) = KeyOf(r)
                        /\ a.physicalQuantity = r.physical_quantity
                        /\ a.status = r.status
                        /\ a.lastAudited = r.last_audited]_vars

(***************************************************************************)
(* Properties of the capture methods.                                      *)
(***************************************************************************)
\* C25: a code delivered by the camera callback or by the hardware scanner
\* on Enter is processed as the manual form would process it in the same
\* state: against the records and the selected location that are current at
\* the moment of the scan, with the same outcome and the same rows to
\* persist, also for the later scans of a session
C25_CaptureMethodAgnostic ==
    [][\A barcode \in Barcodes :
          /\ OnScanSuccess(barcode) => BeginItemScan("camera", CurrentView, barcode)
          /\ HandleKeyPress(barcode) => BeginItemScan("hardware", CurrentView, barcode)]_vars

\* C26: when the catalog holds the scanned SKU at several locations and one
\* of them is selected, a scan whose write succeeds increments the record at
\* the selected location: it shows no location warning, is not denied, and
\* leaves the SKU's rows at the other locations as they were, whichever
\* record the lookup meets first
C26_ScanAtSelectedLocation ==
    [][\A id \in LocIds :
          LET name == LocationNameOf(locations, id)
              here == {i \in itemMaster : i.sku = "A1" /\ i.location = name}
              elsewhere == {i \in itemMaster : i.sku = "A1" /\ i.location # name}
          IN  (ItemScan("A1", id, TRUE) /\ here # {} /\ elsewhere # {}) =>
                  /\ last'.result = "success"
                  /\ ~last'.warning
                  /\ last'.target = <<"A1", name>>
                  /\ PersistedQuantity(db', <<"A1", name>>)
                        = PersistedQuantity(db, <<"A1", name>>) + 1
                  /\ {r \in db' : KeyOf(r) # <<"A1", name>>}
                        = {r \in db : KeyOf(r) # <<"A1", name>>}]_vars

(***************************************************************************)
(* Properties of the summaries between the refreshes.                      *)
(***************************************************************************)
\* C27: in every state, the states between the refreshes of itemMaster and
\* auditedItems included, every summary of getInventorySummary and
\* getLocationSummary has 0 <= auditedItems <= totalItems, pendingItems >= 0
\* and matched + discrepancies = auditedItems
C27_SummaryArithmetic ==
    \A summary \in ShownSummaries :
        /\ 0 <= summary.auditedItems
        /\ summary.auditedItems <= summary.totalItems
        /\ summary.pendingItems >= 0
        /\ summary.matched + summary.discrepancies = summary.auditedItems

(***************************************************************************)
(* Properties of saves that overlap.                                       *)
(***************************************************************************)
\* the (questionId, locationId) of an answer
AnswerKey(a) == <<a.questionId, a.locationId>>

\* C28: two calls of saveQuestionnaireAnswer for different keys, the second
\* begun before the upsert of the first returned, both take effect: once
\* both have returned, the answers in memory hold an answer for each of the
\* two keys, and the keys in memory are the keys of the table
C28_OverlappingSavesKept ==
    \A c1, c2 \in calls :
        (/\ c1.phase = "returned" /\ c2.phase = "returned"
         /\ AnswerKey(c1.newAnswer) # AnswerKey(c2.newAnswer)
         /\ c1.newAnswer \notin c2.updatedAnswers
         /\ c2.newAnswer \notin c1.updatedAnswers) =>
            /\ {AnswerKey(c1.newAnswer), AnswerKey(c2.newAnswer)}
                  \subseteq {AnswerKey(a) : a \in questionnaireAnswers}
            /\ {AnswerKey(a) : a \in questionnaireAnswers}
                  = {<<r.question_id, r.location_id>> : r \in answersDb}

(***************************************************************************)
(* Properties of the session.                                              *)
(***************************************************************************)
\* C29: isAuthenticated is true exactly when currentUser is not null, and
\* from the SIGNED_OUT event until the next SIGNED_IN (the auth service
\* holds no session) currentUser is null, isAuthenticated is false and
\* users is empty, also when a fetchSession begun before returns afterwards
C29_SessionCoherent ==
    /\ auth.isAuthenticated <=> currentUser # NoUser
    /\ auth.session = NoUser =>
          /\ currentUser = NoUser
          /\ ~auth.isAuthenticated
          /\ auth.users = {}

(***************************************************************************)
(* Properties of the records and the registry together.                    *)
(***************************************************************************)
\* C30: the location of every record, in memory and in the table, is the
\* name of a location of the locations table
C30_NoOrphanedRecords ==
    \A r \in AllRecords : r.location \in {l.name : l \in locationsDb}

====
